---- MODULE Spec2Model ----
(***************************************************************************)
(* Model of the tourism dashboard: the State Store (state.js), the key     *)
(* normalizers (normalizeCountyKey of the orchestrator, joinKey of the map *)
(* view), the orchestrator's startup and control wiring, and the update    *)
(* contract of the chart views.                                            *)
(*                                                                         *)
(* Strings are sequences of atoms.  An atom is one separator character     *)
(* (" ", "-", the byte-order mark "BOM") or a run of letters (a word).     *)
(* A word written with a capital letter stands for a spelling with upper   *)
(* case letters, a word containing "^" for a spelling with a diacritical   *)
(* mark ("z^upanija" is the word zupanija written with z-caron).           *)
(***************************************************************************)
EXTENDS Integers, Sequences, FiniteSets, TLC

VARIABLES
  \* State Store (state.js)
  state,        \* the Selection State object
  listeners,    \* the Set of callbacks, in insertion order
  handles,      \* the callbacks whose unregistration handle exists
  pass,         \* record of the setState call the last operation made
  hist,         \* the patches of the setState calls so far
  \* Orchestrator and chart views
  src,          \* per data source: "pending", "ok" or "failed"
  pc,           \* position of main(): "loading", "aborted" or "ready"
  DATA,         \* what loadData returned
  countyMonthIndex, \* (year, month) -> (region key -> arrivals, nights)
  townToCounty, \* settlement -> region, built by loadData
  views,        \* what each chart view shows
  lastEvent,    \* the event handled last
  prevEvent,    \* the event handled before it
  \* Raw spellings of one region and the keys derived from them
  rawRow, rawFeat, rowKey, featKey, reKey, nphase, nvar,
  \* The rows the load reads and the lookup of the scatter view
  intensityLongRaw, \* rows of the intensity table, in file order
  countyTotalsRaw,  \* rows of the monthly totals table, in file order
  lookup,           \* the normalized settlement -> region Map of the scatter view
  lphase            \* "reading" while rows arrive, then "built"

storeVars == <<state, listeners, handles, pass, hist>>
appVars == <<src, pc, DATA, countyMonthIndex, townToCounty, views, lastEvent, prevEvent>>
normVars == <<rawRow, rawFeat, rowKey, featKey, reKey, nphase, nvar>>
loadVars == <<intensityLongRaw, countyTotalsRaw, lookup, lphase>>
vars == <<storeVars, appVars, normVars, loadVars>>

\* ------------------------------------------------------------------------
\* Bounds
\* ------------------------------------------------------------------------
MaxVariations == 3
MaxHist == 3
MaxRows == 3

\* ------------------------------------------------------------------------
\* Strings
\* ------------------------------------------------------------------------
SP  == " "
HY  == "-"
BOM == "BOM"

\* Pairs <<lower case spelling, spelling with upper case letters>>.
CasePairs ==
  { <<"splitsko", "Splitsko">>, <<"dalmatinska", "Dalmatinska">>,
    <<"istarska", "Istarska">>, <<"istria", "Istria">>,
    <<"zupanija", "Zupanija">>, <<"z^upanija", "Z^upanija">>,
    <<"sibensko", "Sibensko">>, <<"s^ibensko", "S^ibensko">>,
    <<"kninska", "Kninska">>, <<"total", "Total">>, <<"germany", "Germany">>,
    <<"italy", "Italy">>, <<"austria", "Austria">>, <<"pula", "Pula">>,
    <<"split", "Split">>, <<"countries", "Countries">>, <<"foreign", "Foreign">> }

\* Pairs <<plain spelling, spelling with a diacritical mark>>.
DiacriticPairs ==
  { <<"sibensko", "s^ibensko">>, <<"Sibensko", "S^ibensko">>,
    <<"zupanija", "z^upanija">>, <<"Zupanija", "Z^upanija">> }

\* Array.prototype.map, and a string method applied to each character.
RECURSIVE MapSeq(_, _)
MapSeq(Op(_), q) ==
  IF q = <<>> THEN <<>> ELSE <<Op(Head(q))>> \o MapSeq(Op, Tail(q))

\* \s of a JavaScript regular expression, and what String.prototype.trim drops:
\* white space, which includes U+FEFF.
IsSpace(a) == a \in {SP, BOM}

\* String.prototype.toLowerCase
LowerAtom(a) ==
  IF \E p \in CasePairs : p[2] = a
  THEN (CHOOSE p \in CasePairs : p[2] = a)[1]
  ELSE a

ToLower(s) == MapSeq(LowerAtom, s)

\* .replace(/\ufeff/g, "")
StripBOM(s) == SelectSeq(s, LAMBDA a : a # BOM)

\* String.prototype.trim
RECURSIVE TrimLeft(_)
TrimLeft(s) ==
  IF s # <<>> /\ IsSpace(Head(s)) THEN TrimLeft(Tail(s)) ELSE s

RECURSIVE TrimRight(_)
TrimRight(s) ==
  IF s # <<>> /\ IsSpace(s[Len(s)])
  THEN TrimRight(SubSeq(s, 1, Len(s) - 1))
  ELSE s

Trim(s) == TrimRight(TrimLeft(s))

\* .replace(/-/g, " ")
HyphenToSpace(s) == MapSeq(LAMBDA a : IF a = HY THEN SP ELSE a, s)

\* .replace(/\s+/g, " ")
RECURSIVE CollapseSpaces(_)
CollapseSpaces(s) ==
  IF s = <<>> THEN <<>>
  ELSE IF IsSpace(Head(s))
       THEN <<SP>> \o CollapseSpaces(TrimLeft(s))
       ELSE <<Head(s)>> \o CollapseSpaces(Tail(s))

\* The start of the white space run that ends at position i (i + 1 when the
\* atom at i is not white space).
RECURSIVE RunStart(_, _)
RunStart(s, i) ==
  IF i >= 1 /\ IsSpace(s[i]) THEN RunStart(s, i - 1) ELSE i + 1

\* .replace(/\s+zupanija$/i, ""): the last word is "zupanija" in any letter
\* case, without diacritical mark, and at least one white space precedes it.
StripQualifier(s) ==
  LET n == Len(s) IN
  IF n >= 2 /\ LowerAtom(s[n]) = "zupanija" /\ IsSpace(s[n - 1])
  THEN SubSeq(s, 1, RunStart(s, n - 1) - 1)
  ELSE s

\* The value null of a region key (no string is this sequence).
Null == <<"null">>

\* const remap = new Map([...])
Remap ==
  { <<<<"istria">>, <<"istarska">>>>,
    <<<<"slavonski", SP, "brod", SP, "posavina">>, <<"brodsko", SP, "posavska">>>>,
    <<<<"vukovar", SP, "sirmium">>, <<"vukovarsko", SP, "srijemska">>>> }

\* remap.get(k) ?? k
RemapGet(k) ==
  IF \E p \in Remap : p[1] = k
  THEN (CHOOSE p \in Remap : p[1] = k)[2]
  ELSE k

\* normalizeCountyKey(raw) of the orchestrator
normalizeCountyKey(raw) ==
  IF raw = Null THEN Null
  ELSE LET k == CollapseSpaces(HyphenToSpace(Trim(StripBOM(ToLower(raw)))))
       IN  RemapGet(Trim(StripQualifier(k)))

\* joinKey(raw) of the map view
joinKey(raw) ==
  Trim(CollapseSpaces(HyphenToSpace(StripQualifier(ToLower(raw)))))

\* ------------------------------------------------------------------------
\* Raw spellings of a region, as the data files may write it
\* ------------------------------------------------------------------------

\* The canonical keys of some regions.
Regions ==
  { <<"splitsko", SP, "dalmatinska">>, <<"istarska">>, <<"sibensko", SP, "kninska">> }

Positions(s) == 1..Len(s)

\* The spellings one variation away from the spelling s.
CaseVariants(s) ==
  { [s EXCEPT ![i] = p[2]] : <<i, p>> \in
      { <<j, q>> \in Positions(s) \X CasePairs : s[j] = q[1] } }

HyphenVariants(s) ==
  { [s EXCEPT ![i] = HY] : i \in { j \in Positions(s) : s[j] = SP } }

QualifierVariants(s) == { s \o <<SP, "zupanija">> }

BOMVariants(s) == { <<BOM>> \o s }

DiacriticVariants(s) ==
  { [s EXCEPT ![i] = p[2]] : <<i, p>> \in
      { <<j, q>> \in Positions(s) \X DiacriticPairs : s[j] = q[1] } }

RemapVariants(s) == { p[1] : p \in { q \in Remap : q[2] = s } }

VaryRow(t) ==
  /\ nphase = "raw" /\ nvar < MaxVariations
  /\ rawRow' = t
  /\ nvar' = nvar + 1
  /\ UNCHANGED <<rawFeat, rowKey, featKey, reKey, nphase>>
  /\ UNCHANGED <<storeVars, appVars, loadVars>>

VaryFeat(t) ==
  /\ nphase = "raw" /\ nvar < MaxVariations
  /\ rawFeat' = t
  /\ nvar' = nvar + 1
  /\ UNCHANGED <<rawRow, rowKey, featKey, reKey, nphase>>
  /\ UNCHANGED <<storeVars, appVars, loadVars>>

RowCase      == \E t \in CaseVariants(rawRow) : VaryRow(t)
RowHyphen    == \E t \in HyphenVariants(rawRow) : VaryRow(t)
RowQualifier == \E t \in QualifierVariants(rawRow) : VaryRow(t)
RowBOM       == \E t \in BOMVariants(rawRow) : VaryRow(t)
RowDiacritic == \E t \in DiacriticVariants(rawRow) : VaryRow(t)
RowRemap     == \E t \in RemapVariants(rawRow) : VaryRow(t)

FeatCase      == \E t \in CaseVariants(rawFeat) : VaryFeat(t)
FeatHyphen    == \E t \in HyphenVariants(rawFeat) : VaryFeat(t)
FeatQualifier == \E t \in QualifierVariants(rawFeat) : VaryFeat(t)
FeatBOM       == \E t \in BOMVariants(rawFeat) : VaryFeat(t)
FeatDiacritic == \E t \in DiacriticVariants(rawFeat) : VaryFeat(t)
FeatRemap     == \E t \in RemapVariants(rawFeat) : VaryFeat(t)

\* The load derives the key of the row, the map view the key of the feature;
\* the key of the row is normalized once more.
DeriveKeys ==
  /\ nphase = "raw"
  /\ rowKey' = normalizeCountyKey(rawRow)
  /\ featKey' = joinKey(rawFeat)
  /\ reKey' = normalizeCountyKey(normalizeCountyKey(rawRow))
  /\ nphase' = "derived"
  /\ UNCHANGED <<rawRow, rawFeat, nvar>>
  /\ UNCHANGED <<storeVars, appVars, loadVars>>

NormNext ==
  \/ RowCase \/ RowHyphen \/ RowQualifier \/ RowBOM \/ RowDiacritic \/ RowRemap
  \/ FeatCase \/ FeatHyphen \/ FeatQualifier \/ FeatBOM \/ FeatDiacritic \/ FeatRemap
  \/ DeriveKeys

\* ------------------------------------------------------------------------
\* State Store (state.js)
\* ------------------------------------------------------------------------

\* state.year before the controls are initialised (null).
NullYear == 0

Years   == {2022, 2023}
Months  == {5, 7}
Metrics == {"nights", "arrivals"}

\* export const state = {...}
InitialState ==
  [year |-> NullYear, month |-> 7, metric |-> "nights", countyKey |-> Null]

\* The callbacks a client may register, and what the body of each does when it
\* is invoked: nothing to the store (as updateAll), or a call of the
\* unregistration handle of a callback, or a subscribe.
Fns == {"updateAll", "once", "stopper", "adder"}

Effect ==
  [f \in Fns |->
     CASE f = "once"    -> [op |-> "unsub", fn |-> "once"]
       [] f = "stopper" -> [op |-> "unsub", fn |-> "updateAll"]
       [] f = "adder"   -> [op |-> "sub",   fn |-> "once"]
       [] OTHER         -> [op |-> "none",  fn |-> f]]

\* An entry of the Set's list that was deleted.
Empty == "~empty~"

\* listeners.add(fn): a Set keeps insertion order and ignores a present value.
SetAdd(entries, fn) ==
  IF \E i \in 1..Len(entries) : entries[i] = fn THEN entries ELSE Append(entries, fn)

\* A removal that shifts the later entries down, as Array.prototype.splice does.
SetDeleteSplice(entries, fn) == SelectSeq(entries, LAMBDA e : e # fn)

\* listeners.delete(fn): the entry is emptied; a running iteration keeps its
\* position in the list.
SetDelete(entries, fn) ==
  MapSeq(LAMBDA e : IF e = fn THEN Empty ELSE e, entries)

Compact(entries) == SelectSeq(entries, LAMBDA e : e # Empty)

Members(entries) == { entries[i] : i \in 1..Len(entries) } \ {Empty}

\* A patch that replaces the state: the fields the patch does not name fall
\* back to their defaults.
Replace(st, patch) ==
  [f \in DOMAIN st \cup DOMAIN patch |->
     IF f \in DOMAIN patch THEN patch[f] ELSE InitialState[f]]

\* Object.assign(state, patch)
Merge(st, patch) ==
  [f \in DOMAIN st \cup DOMAIN patch |->
     IF f \in DOMAIN patch THEN patch[f] ELSE st[f]]

Event(op, fn, seen) == [op |-> op, fn |-> fn, seen |-> seen]

\* for (const fn of listeners) fn(state): the iteration walks the live list
\* from position i; hs is the set of unregistration handles that exist.
RECURSIVE Notify(_, _, _, _, _)
Notify(entries, i, hs, st, log) ==
  IF i > Len(entries) THEN [entries |-> entries, handles |-> hs, log |-> log]
  ELSE IF entries[i] = Empty THEN Notify(entries, i + 1, hs, st, log)
  ELSE
    LET fn  == entries[i]
        eff == Effect[fn]
        called == Append(log, Event("call", fn, st))
    IN  CASE eff.op = "unsub" /\ eff.fn \in hs ->
               Notify(SetDelete(entries, eff.fn), i + 1, hs, st,
                      Append(called, Event("unsub", eff.fn, st)))
          [] eff.op = "sub" ->
               Notify(SetAdd(entries, eff.fn), i + 1, hs \cup {eff.fn}, st,
                      Append(called, Event("sub", eff.fn, st)))
          [] OTHER -> Notify(entries, i + 1, hs, st, called)

NoPass == [n |-> 0, start |-> {}, pre |-> InitialState, patch |-> <<>>, log |-> <<>>]

\* setState(patch): the whole call, the callbacks included.
SetStateResult(patch) ==
  LET st == Merge(state, patch)
      r  == Notify(listeners, 1, handles, st, <<>>)
  IN  [state |-> st, listeners |-> Compact(r.entries), handles |-> r.handles,
       pass |-> [n |-> 1, start |-> Members(listeners), pre |-> state,
                 patch |-> patch, log |-> r.log]]

setState(patch) ==
  LET r == SetStateResult(patch) IN
  /\ state' = r.state
  /\ listeners' = r.listeners
  /\ handles' = r.handles
  /\ pass' = r.pass

\* subscribe(fn)
subscribe(fn) ==
  /\ listeners' = SetAdd(listeners, fn)
  /\ handles' = handles \cup {fn}

\* the handle subscribe returned: () => listeners.delete(fn)
unsubscribe(fn) ==
  /\ listeners' = Compact(SetDelete(listeners, fn))
  /\ handles' = handles

\* The patches the clients of the store pass.
Patches ==
  { [year |-> y] : y \in Years } \cup
  { [month |-> m] : m \in Months } \cup
  { [metric |-> v] : v \in Metrics } \cup
  { [countyKey |-> k] : k \in {Null, <<"istarska">>} } \cup
  { [year |-> y, month |-> m] : <<y, m>> \in Years \X Months }

\* A client registers a callback.
StoreSubscribe ==
  /\ \E fn \in Fns : subscribe(fn)
  /\ pass' = NoPass
  /\ UNCHANGED <<state, hist, appVars, normVars, loadVars>>

\* A client calls a handle between two setState calls.
StoreUnsubscribe ==
  /\ \E fn \in handles : unsubscribe(fn)
  /\ pass' = NoPass
  /\ UNCHANGED <<state, hist, appVars, normVars, loadVars>>

\* A client calls setState.
StoreSetState ==
  /\ \E p \in Patches : setState(p)
  /\ UNCHANGED <<hist, appVars, normVars, loadVars>>

StoreNext == StoreSubscribe \/ StoreUnsubscribe \/ StoreSetState

\* The store with the patches of the calls so far recorded.
MergeSetState ==
  /\ Len(hist) < MaxHist
  /\ \E p \in Patches : setState(p) /\ hist' = Append(hist, p)
  /\ UNCHANGED <<appVars, normVars, loadVars>>

MergeSubscribe ==
  /\ Len(hist) < MaxHist
  /\ subscribe("updateAll")
  /\ UNCHANGED <<state, pass, hist, appVars, normVars, loadVars>>

MergeNext == MergeSetState \/ MergeSubscribe

\* ------------------------------------------------------------------------
\* Data files (a fixture: three regions, two years, two months)
\* ------------------------------------------------------------------------
Sources == {"geo", "countyTotals", "hrWide", "originLong", "intensityLong", "meta"}

\* A numeric cell that is empty (d3.autoType reads it as null).
NullNum == -1

\* A numeric cell whose text is not a number.
NaNNum == -2

SplitRaw == <<"Splitsko", HY, "dalmatinska">>
Istra == <<"istarska">>

GeoFile ==
  << [county_key |-> <<"splitsko", HY, "dalmatinska">>, county_label |-> "Splitsko-dalmatinska"],
     [county_key |-> <<"Istarska">>, county_label |-> "Istarska"],
     [county_key |-> <<"sibensko", SP, "kninska", SP, "zupanija">>, county_label |-> "Sibensko-kninska"] >>

CountyTotalsFile ==
  << [county_key |-> SplitRaw, year |-> 2022, month |-> 7, arrivals |-> 10, nights |-> 40],
     [county_key |-> <<"istria">>, year |-> 2022, month |-> 7, arrivals |-> 5, nights |-> NullNum],
     [county_key |-> <<"Istarska", SP, "zupanija">>, year |-> 2023, month |-> 7, arrivals |-> 6, nights |-> 20],
     [county_key |-> SplitRaw, year |-> 2023, month |-> 5, arrivals |-> 3, nights |-> 9] >>

HrWideFile ==
  << [year |-> 2022, month |-> 7, total_arrivals |-> 15, total_nights |-> 40],
     [year |-> 2022, month |-> 5, total_arrivals |-> 4, total_nights |-> 8],
     [year |-> 2023, month |-> 5, total_arrivals |-> 3, total_nights |-> 9],
     [year |-> 2023, month |-> 7, total_arrivals |-> 6, total_nights |-> 20] >>

OriginLongFile ==
  << [county_key |-> <<"istria">>, year |-> 2023, month |-> 7,
      origin_country |-> <<"Germany">>, arrivals |-> 50, nights |-> 200],
     [county_key |-> Istra, year |-> 2023, month |-> 7,
      origin_country |-> <<"Italy", SP>>, arrivals |-> 60, nights |-> 90],
     [county_key |-> Istra, year |-> 2023, month |-> 7,
      origin_country |-> <<"Total">>, arrivals |-> 110, nights |-> 290],
     [county_key |-> Istra, year |-> 2023, month |-> 7,
      origin_country |-> <<"Austria">>, arrivals |-> 7, nights |-> NullNum],
     [county_key |-> SplitRaw, year |-> 2023, month |-> 7,
      origin_country |-> <<"Italy">>, arrivals |-> 30, nights |-> 60],
     [county_key |-> SplitRaw, year |-> 2023, month |-> 7,
      origin_country |-> <<"Germany">>, arrivals |-> NullNum, nights |-> 33],
     [county_key |-> Istra, year |-> 2022, month |-> 7,
      origin_country |-> <<"Germany">>, arrivals |-> 40, nights |-> 150],
     [county_key |-> Istra, year |-> 2023, month |-> 7,
      origin_country |-> <<"france">>, arrivals |-> 21, nights |-> 70],
     [county_key |-> Istra, year |-> 2023, month |-> 7,
      origin_country |-> <<"poland">>, arrivals |-> 21, nights |-> 71],
     [county_key |-> Istra, year |-> 2023, month |-> 7,
      origin_country |-> <<"czechia">>, arrivals |-> 22, nights |-> 72],
     [county_key |-> Istra, year |-> 2023, month |-> 7,
      origin_country |-> <<"slovenia">>, arrivals |-> 23, nights |-> 73],
     [county_key |-> Istra, year |-> 2023, month |-> 7,
      origin_country |-> <<"Countries", SP, HY, SP, "Total">>, arrivals |-> 300, nights |-> 900],
     [county_key |-> Istra, year |-> 2023, month |-> 7,
      origin_country |-> <<"hungary">>, arrivals |-> 24, nights |-> 74],
     [county_key |-> Istra, year |-> 2023, month |-> 7,
      origin_country |-> <<"slovakia">>, arrivals |-> 25, nights |-> 75],
     [county_key |-> Istra, year |-> 2023, month |-> 7,
      origin_country |-> <<"netherlands">>, arrivals |-> 26, nights |-> 76],
     [county_key |-> Istra, year |-> 2023, month |-> 5,
      origin_country |-> <<"croatia">>, arrivals |-> 500, nights |-> 999],
     [county_key |-> Istra, year |-> 2023, month |-> 7,
      origin_country |-> <<"Foreign", SP, "countries", SP, HY, SP, "total">>,
      arrivals |-> 280, nights |-> 850],
     [county_key |-> Istra, year |-> 2023, month |-> 7,
      origin_country |-> <<"sweden">>, arrivals |-> 27, nights |-> 77],
     [county_key |-> Istra, year |-> 2023, month |-> 7,
      origin_country |-> <<"denmark">>, arrivals |-> 7, nights |-> 70],
     [county_key |-> Istra, year |-> 2023, month |-> 7,
      origin_country |-> <<"other", SP, "total">>, arrivals |-> 28, nights |-> 78] >>

IntensityLongFile ==
  << [spatial_level |-> "municipality", spatial_unit |-> <<"Pula">>, county_key |-> <<"Istarska">>,
      year |-> 2023, nights_per_100 |-> 300, nights_per_km2 |-> 80, permanent_beds |-> 1000],
     [spatial_level |-> "municipality", spatial_unit |-> <<"Split">>, county_key |-> SplitRaw,
      year |-> 2023, nights_per_100 |-> 120, nights_per_km2 |-> 60, permanent_beds |-> 900],
     [spatial_level |-> "county", spatial_unit |-> <<"Istarska">>, county_key |-> <<"Istarska">>,
      year |-> 2023, nights_per_100 |-> 200, nights_per_km2 |-> 50, permanent_beds |-> 5000],
     [spatial_level |-> "municipality", spatial_unit |-> <<"Pula">>, county_key |-> <<"Istarska">>,
      year |-> 2022, nights_per_100 |-> 280, nights_per_km2 |-> 70, permanent_beds |-> 950],
     [spatial_level |-> "municipality", spatial_unit |-> <<"Split">>, county_key |-> SplitRaw,
      year |-> 2022, nights_per_100 |-> NaNNum, nights_per_km2 |-> 55, permanent_beds |-> NullNum] >>

MetaFile == [years_table13 |-> <<2023, 2022>>]

\* The entries of the Map that charts/townToCounty.js exports, in order.
TownToCountyRaw ==
  << <<<<"Pula">>, <<"Istarska">>>>, <<<<"Split">>, SplitRaw>> >>

\* ------------------------------------------------------------------------
\* Orchestrator: loadData
\* ------------------------------------------------------------------------
\* function ymKey(y,m): the year, a dash and the month padded to two digits
\* (months of at most two digits).
ymKey(y, m) == <<y, HY, m \div 10, m % 10>>

\* r[k] == null ? null : +r[k]
NumOrNull(v) == IF v = NullNum THEN NullNum ELSE v

\* function normalizeCountyTotals(rows)
normalizeCountyTotals(rows) ==
  MapSeq(LAMBDA r :
           [county_key |-> normalizeCountyKey(r.county_key),
            year |-> r.year, month |-> r.month,
            arrivals |-> NumOrNull(r.arrivals), nights |-> NumOrNull(r.nights)],
         rows)

\* function normalizeOriginLong(rows)
normalizeOriginLong(rows) ==
  MapSeq(LAMBDA r :
           [county_key |-> normalizeCountyKey(r.county_key),
            year |-> r.year, month |-> r.month,
            origin_country |-> Trim(r.origin_country),
            arrivals |-> NumOrNull(r.arrivals), nights |-> NumOrNull(r.nights)],
         rows)

\* A JavaScript Map as a function from its keys; get of a missing key is Undef.
EmptyMap == [k \in {} |-> 0]

MapSet(m, k, v) == [x \in DOMAIN m \cup {k} |-> IF x = k THEN v ELSE m[x]]

\* The loop over intensityLongRaw that fills townToCounty.
RECURSIVE BuildTownToCounty(_, _)
BuildTownToCounty(rows, m) ==
  IF rows = <<>> THEN m
  ELSE LET r == Head(rows)
           town == Trim(r.spatial_unit)
           county == Trim(r.county_key)
       IN  IF r.spatial_level # "municipality" THEN BuildTownToCounty(Tail(rows), m)
           ELSE IF town = <<>> \/ county = <<>> THEN BuildTownToCounty(Tail(rows), m)
           ELSE IF town \in DOMAIN m /\ m[town] # county
                THEN BuildTownToCounty(Tail(rows), m)
                ELSE BuildTownToCounty(Tail(rows), MapSet(m, town, county))

\* r.arrivals ?? 0
OrZero(v) == IF v = NullNum THEN 0 ELSE v

\* A build that stores the cells of a row as they are, null included.
RECURSIVE BuildCountyMonthIndexKeepsNull(_, _)
BuildCountyMonthIndexKeepsNull(rows, idx) ==
  IF rows = <<>> THEN idx
  ELSE LET r == Head(rows)
           k == ymKey(r.year, r.month)
           mp == IF k \in DOMAIN idx THEN idx[k] ELSE EmptyMap
           cell == [arrivals |-> r.arrivals, nights |-> r.nights]
       IN  BuildCountyMonthIndexKeepsNull(Tail(rows),
                                          MapSet(idx, k, MapSet(mp, r.county_key, cell)))

\* d3.group by ymKey, then one inner Map per group; a later row of the same
\* region replaces the earlier one.
RECURSIVE BuildCountyMonthIndex(_, _)
BuildCountyMonthIndex(rows, idx) ==
  IF rows = <<>> THEN idx
  ELSE LET r == Head(rows)
           k == ymKey(r.year, r.month)
           mp == IF k \in DOMAIN idx THEN idx[k] ELSE EmptyMap
           cell == [arrivals |-> OrZero(r.arrivals), nights |-> OrZero(r.nights)]
       IN  BuildCountyMonthIndex(Tail(rows), MapSet(idx, k, MapSet(mp, r.county_key, cell)))

NoData ==
  [loaded |-> FALSE, geo |-> <<>>, countyTotals |-> <<>>, hrWide |-> <<>>,
   originLong |-> <<>>, intensityLong |-> <<>>, meta |-> [years_table13 |-> <<>>]]

\* return { geo, countyTotals, hrWide, originLong, intensityLong, meta }
LoadedData ==
  [loaded |-> TRUE, geo |-> GeoFile,
   countyTotals |-> normalizeCountyTotals(CountyTotalsFile),
   hrWide |-> HrWideFile,
   originLong |-> normalizeOriginLong(OriginLongFile),
   intensityLong |-> IntensityLongFile,
   meta |-> MetaFile]

\* Some source has loaded (not the condition Promise.all waits for).
AnyLoaded == \E s \in Sources : src[s] = "ok"

\* await Promise.all([...]) resumes when every source has loaded.
AllLoaded == \A s \in Sources : src[s] = "ok"

\* ------------------------------------------------------------------------
\* Chart views
\* ------------------------------------------------------------------------
\* !state.countyKey is false for null and for the empty string.
Truthy(k) == k # Null /\ k # <<>>

\* The slice of at most n leading elements.
Take(q, n) == SubSeq(q, 1, IF Len(q) < n THEN Len(q) ELSE n)

RECURSIVE Reverse(_)
Reverse(q) == IF q = <<>> THEN <<>> ELSE Append(Reverse(Tail(q)), Head(q))

\* Array.prototype.sort((a,b) => b.value - a.value): stable, largest first.
RECURSIVE InsertDesc(_, _)
InsertDesc(x, q) ==
  IF q = <<>> THEN <<x>>
  ELSE IF Head(q).value >= x.value THEN <<Head(q)>> \o InsertDesc(x, Tail(q))
  ELSE <<x>> \o q

RECURSIVE SortDesc(_)
SortDesc(q) ==
  IF q = <<>> THEN <<>>
  ELSE InsertDesc(q[Len(q)], SortDesc(SubSeq(q, 1, Len(q) - 1)))

\* keyOf(d) of the map view
keyOf(d) == joinKey(d.county_key)

\* valuesByCountyKey of updateAll
ValuesByCountyKey(st, index) ==
  LET k == ymKey(st.year, st.month)
      idx == IF k \in DOMAIN index THEN index[k] ELSE EmptyMap
  IN  [c \in DOMAIN idx |->
         IF st.metric = "arrivals" THEN idx[c].arrivals ELSE idx[c].nights]

\* mapChart.update: the paths (each with its click handler), their fill
\* value, the legend and the highlight of the selected region.
MapUpdate(st, geojson, valuesByCountyKey) ==
  LET feats == geojson
      keys == { keyOf(feats[i]) : i \in 1..Len(feats) }
      vals == valuesByCountyKey
  IN  [updated |-> TRUE,
       paths |-> keys,
       fill |-> [c \in keys |-> IF c \in DOMAIN vals THEN vals[c] ELSE 0],
       legend |-> [metric |-> st.metric, year |-> st.year, month |-> st.month],
       highlight |-> IF Truthy(st.countyKey) /\ st.countyKey \in keys
                     THEN st.countyKey ELSE Null]

\* lineChart.update: the points of the nationwide series (each with its click
\* handler), the series of the selected region and the month highlight.
LineUpdate(st, hrMonthlyWide, countyMonthlyTotals) ==
  LET hr == SelectSeq(hrMonthlyWide, LAMBDA d : d.year = st.year)
      ct == SelectSeq(countyMonthlyTotals,
                      LAMBDA d : d.year = st.year /\ d.county_key = st.countyKey)
  IN  [updated |-> TRUE,
       label |-> [metric |-> st.metric, year |-> st.year],
       points |-> { hr[i].month : i \in 1..Len(hr) },
       county |-> IF Truthy(st.countyKey)
                  THEN { <<ct[i].month,
                           IF st.metric = "arrivals" THEN ct[i].arrivals ELSE ct[i].nights>> :
                         i \in 1..Len(ct) }
                  ELSE {},
       countyLine |-> Truthy(st.countyKey),
       monthHi |-> st.month]

\* The origin labels that mark a total.
TotalMarkers ==
  { <<"countries", SP, HY, SP, "total">>,
    <<"foreign", SP, "countries", SP, HY, SP, "total">>,
    <<"total">> }

TopN == 10

\* A filter that compares the origin label with the total markers as written,
\* without lower-casing it.
BarsTopCaseSensitive(st, originLong) ==
  LET rows == SelectSeq(originLong,
                LAMBDA d : /\ d.county_key = st.countyKey
                           /\ d.year = st.year
                           /\ d.month = st.month
                           /\ Trim(d.origin_country) \notin TotalMarkers)
      vals == MapSeq(LAMBDA d :
                       [country |-> d.origin_country,
                        value |-> IF st.metric = "arrivals" THEN d.arrivals ELSE d.nights,
                        arrivals |-> d.arrivals, nights |-> d.nights],
                     rows)
  IN  Reverse(Take(SortDesc(SelectSeq(vals, LAMBDA d : d.value # NullNum)), TopN))

\* The rows the bars view draws, in drawing order.
BarsTop(st, originLong) ==
  LET rows == SelectSeq(originLong,
                LAMBDA d : /\ d.county_key = st.countyKey
                           /\ d.year = st.year
                           /\ d.month = st.month
                           /\ Trim(ToLower(d.origin_country)) \notin TotalMarkers)
      vals == MapSeq(LAMBDA d :
                       [country |-> d.origin_country,
                        value |-> IF st.metric = "arrivals" THEN d.arrivals ELSE d.nights,
                        arrivals |-> d.arrivals, nights |-> d.nights],
                     rows)
  IN  Reverse(Take(SortDesc(SelectSeq(vals, LAMBDA d : d.value # NullNum)), TopN))

\* An update whose empty branch shows the indicator and leaves the drawing.
BarsUpdateKeepsDrawing(st, originLong, shown) ==
  IF ~Truthy(st.countyKey)
  THEN [shown EXCEPT !.updated = TRUE, !.empty = TRUE]
  ELSE LET top == BarsTop(st, originLong)
       IN  [updated |-> TRUE, empty |-> FALSE, bars |-> top,
            labels |-> MapSeq(LAMBDA d : d.country, top), axis |-> TRUE]

\* barsChart.update; shown is what the view holds from its last update (the
\* data joins replace the bars and labels by those of the rows drawn now).
BarsUpdate(st, originLong, shown) ==
  IF ~Truthy(st.countyKey)
  THEN [updated |-> TRUE, empty |-> TRUE, bars |-> <<>>, labels |-> <<>>, axis |-> FALSE]
  ELSE LET top == BarsTop(st, originLong)
       IN  [updated |-> TRUE, empty |-> FALSE, bars |-> top,
            labels |-> MapSeq(LAMBDA d : d.country, top), axis |-> TRUE]

\* .normalize("NFD").replace(/[\u0300-\u036f]/g, "")
UnaccentAtom(a) ==
  IF \E p \in DiacriticPairs : p[2] = a
  THEN (CHOOSE p \in DiacriticPairs : p[2] = a)[1]
  ELSE a

\* norm(s) of the scatter view
norm(s) ==
  Trim(CollapseSpaces(HyphenToSpace(ToLower(MapSeq(UnaccentAtom, s)))))

\* The normalized lookup the scatter view builds when it is created.
RECURSIVE NormalizedLookup(_, _)
NormalizedLookup(entries, m) ==
  IF entries = <<>> THEN m
  ELSE NormalizedLookup(Tail(entries),
                        MapSet(m, norm(Head(entries)[1]), norm(Head(entries)[2])))

ScatterTownToCounty == NormalizedLookup(TownToCountyRaw, EmptyMap)

\* townToCounty.get(k) === selectedCounty
MapsTo(m, k, c) == k \in DOMAIN m /\ m[k] = c

\* The rows of the selected region the scatter view draws.
ScatterRows(st, intensityLong) ==
  SelectSeq(intensityLong,
    LAMBDA d : /\ d.year = st.year
               /\ d.spatial_level = "municipality"
               /\ \/ MapsTo(ScatterTownToCounty, norm(d.spatial_unit), norm(st.countyKey))
                  \/ MapsTo(ScatterTownToCounty, norm(d.county_key), norm(st.countyKey)))

\* Number.isFinite(+v): an empty cell reads as null and +null is 0; a cell
\* that is not a number gives NaN.
IsFiniteNum(v) == v # NaNNum

\* An update that returns when no row matches without removing what the view
\* holds.
ScatterUpdateKeepsPoints(st, intensityLong, shown) ==
  LET cleared == [updated |-> TRUE, points |-> <<>>, axes |-> FALSE,
                  titles |-> shown.titles]
  IN  IF ~Truthy(st.countyKey) THEN cleared
      ELSE LET rows == ScatterRows(st, intensityLong)
               clean == SelectSeq(rows, LAMBDA d : IsFiniteNum(d.nights_per_100)
                                                    /\ IsFiniteNum(d.nights_per_km2))
           IN  IF rows = <<>> THEN [shown EXCEPT !.updated = TRUE]
               ELSE IF clean = <<>> THEN cleared
               ELSE [updated |-> TRUE,
                     points |-> MapSeq(LAMBDA d : d.spatial_unit, clean),
                     axes |-> TRUE, titles |-> TRUE]

\* scatterChart.update: the axis titles, once drawn, are never removed.
ScatterUpdate(st, intensityLong, shown) ==
  LET cleared == [updated |-> TRUE, points |-> <<>>, axes |-> FALSE,
                  titles |-> shown.titles]
  IN  IF ~Truthy(st.countyKey) THEN cleared
      ELSE LET rows == ScatterRows(st, intensityLong)
               clean == SelectSeq(rows, LAMBDA d : IsFiniteNum(d.nights_per_100)
                                                    /\ IsFiniteNum(d.nights_per_km2))
           IN  IF rows = <<>> \/ clean = <<>> THEN cleared
               ELSE [updated |-> TRUE,
                     points |-> MapSeq(LAMBDA d : d.spatial_unit, clean),
                     axes |-> TRUE, titles |-> TRUE]

\* A pass that ends before the update of the last view.
updateAllWithoutScatter(st, data, index, shown) ==
  [map |-> MapUpdate(st, data.geo, ValuesByCountyKey(st, index)),
   line |-> LineUpdate(st, data.hrWide, data.countyTotals),
   bars |-> BarsUpdate(st, data.originLong, shown.bars),
   scatter |-> shown.scatter]

\* function updateAll(): it reads the state object and the data as they are
\* when it runs.
updateAll(st, data, index, shown) ==
  [map |-> MapUpdate(st, data.geo, ValuesByCountyKey(st, index)),
   line |-> LineUpdate(st, data.hrWide, data.countyTotals),
   bars |-> BarsUpdate(st, data.originLong, shown.bars),
   scatter |-> ScatterUpdate(st, data.intensityLong, shown.scatter)]

\* ------------------------------------------------------------------------
\* Orchestrator: main, initControls and the event handlers
\* ------------------------------------------------------------------------
NoView ==
  [map |-> [updated |-> FALSE, paths |-> {}, fill |-> EmptyMap,
            legend |-> [metric |-> "", year |-> NullYear, month |-> 0], highlight |-> Null],
   line |-> [updated |-> FALSE, label |-> [metric |-> "", year |-> NullYear],
             points |-> {}, county |-> {}, countyLine |-> FALSE, monthHi |-> 0],
   bars |-> [updated |-> FALSE, empty |-> FALSE, bars |-> <<>>, labels |-> <<>>, axis |-> FALSE],
   scatter |-> [updated |-> FALSE, points |-> <<>>, axes |-> FALSE, titles |-> FALSE]]

NoEvent == [kind |-> "none", key |-> Null, before |-> Null]

Ev(kind, key) == [kind |-> kind, key |-> key, before |-> state.countyKey]

\* fn(state) was called for updateAll in the pass.
Notified(p) == \E i \in 1..Len(p.log) : p.log[i].op = "call" /\ p.log[i].fn = "updateAll"

\* A handler that is one setState call: the merge, the notification and the
\* re-render the subscriber does.
CallSetState(patch) ==
  LET r == SetStateResult(patch) IN
  /\ setState(patch)
  /\ UNCHANGED <<DATA, countyMonthIndex, townToCounty>>
  /\ views' = IF Notified(r.pass)
              THEN updateAll(r.state, DATA, countyMonthIndex, views)
              ELSE views

\* An event no listener is registered for.
NoHandler ==
  /\ pass' = NoPass
  /\ UNCHANGED <<state, listeners, handles, DATA, countyMonthIndex, townToCounty, views>>

Record(kind, key) ==
  /\ lastEvent' = Ev(kind, key)
  /\ prevEvent' = lastEvent
  /\ UNCHANGED <<hist, src, pc, normVars, loadVars>>

\* One of the fetches of Promise.all completes.
SourceLoads ==
  /\ \E s \in Sources : src[s] = "pending" /\ src' = [src EXCEPT ![s] = "ok"]
  /\ UNCHANGED <<storeVars, pc, DATA, countyMonthIndex, townToCounty, views,
                 lastEvent, prevEvent, normVars, loadVars>>

\* One of the fetches fails: Promise.all rejects, and main with it.
SourceFails ==
  /\ \E s \in Sources : src[s] = "pending" /\ src' = [src EXCEPT ![s] = "failed"]
  /\ pc' = IF pc = "loading" THEN "aborted" ELSE pc
  /\ UNCHANGED <<storeVars, DATA, countyMonthIndex, townToCounty, views,
                 lastEvent, prevEvent, normVars, loadVars>>

\* const years = (meta.years_table13 ?? []).slice().sort((a,b)=>a-b);
\* years.at(-1) ?? 2024
DefaultYear(meta) ==
  LET ys == { meta.years_table13[i] : i \in 1..Len(meta.years_table13) }
  IN  IF ys = {} THEN 2024 ELSE CHOOSE y \in ys : \A z \in ys : z <= y

YearOptions == { DATA.meta.years_table13[i] : i \in 1..Len(DATA.meta.years_table13) }

\* main() after the await: the rest of loadData (rows normalized, both indexes
\* built), initControls (one setState, the three listeners), subscribe, the
\* first updateAll, the resize listener.
MainResumes ==
  /\ pc = "loading"
  /\ AllLoaded
  /\ DATA' = LoadedData
  /\ townToCounty' = BuildTownToCounty(IntensityLongFile, townToCounty)
  /\ countyMonthIndex' = BuildCountyMonthIndex(LoadedData.countyTotals, EmptyMap)
  /\ LET r == SetStateResult([year |-> DefaultYear(LoadedData.meta)])
     IN  /\ state' = r.state
         /\ pass' = r.pass
         /\ listeners' = SetAdd(r.listeners, "updateAll")
         /\ handles' = r.handles \cup {"updateAll"}
         /\ views' = updateAll(r.state, LoadedData,
                               BuildCountyMonthIndex(LoadedData.countyTotals, EmptyMap),
                               views)
  /\ pc' = "ready"
  /\ lastEvent' = Ev("startup", Null)
  /\ prevEvent' = lastEvent
  /\ UNCHANGED <<hist, src, normVars, loadVars>>

\* A DOM event that reaches no listener: before initControls and main have
\* registered them nothing runs.
Unheard == pc # "ready" /\ UNCHANGED vars

\* change of the year selector
YearSelectChange ==
  \/ Unheard
  \/ /\ pc = "ready"
     /\ \E y \in YearOptions : CallSetState([year |-> y])
     /\ Record("year", Null)

\* change of the month control (ui.monthRange): initControls registers no
\* listener on it.
MonthRangeChange ==
  \/ Unheard
  \/ /\ pc = "ready"
     /\ NoHandler
     /\ Record("month", Null)

\* change of the metric selector
MetricSelectChange ==
  \/ Unheard
  \/ /\ pc = "ready"
     /\ \E v \in Metrics : CallSetState([metric |-> v])
     /\ Record("metric", Null)

\* click of the reset button
ResetClick ==
  \/ Unheard
  \/ /\ pc = "ready"
     /\ CallSetState([countyKey |-> Null])
     /\ Record("reset", Null)

\* window resize
WindowResize ==
  \/ Unheard
  \/ /\ pc = "ready"
     /\ pass' = NoPass
     /\ UNCHANGED <<state, listeners, handles, DATA, countyMonthIndex, townToCounty>>
     /\ views' = updateAll(state, DATA, countyMonthIndex, views)
     /\ Record("resize", Null)

\* A click handler that always selects the region clicked.
ClickPatchSelects(st, key) == [countyKey |-> key]

\* { countyKey: state.countyKey === key ? null : key }
ClickPatch(st, key) == [countyKey |-> IF st.countyKey = key THEN Null ELSE key]

\* click on a path of the map (the paths exist once the map view has drawn)
MapClick ==
  \E key \in views.map.paths :
    /\ CallSetState(ClickPatch(state, key))
    /\ Record("mapclick", key)

\* click on a point of the nationwide series
LinePointClick ==
  \E m \in views.line.points :
    /\ CallSetState([month |-> m])
    /\ Record("lineclick", Null)

Next ==
  \/ SourceLoads \/ SourceFails \/ MainResumes
  \/ YearSelectChange \/ MonthRangeChange \/ MetricSelectChange \/ ResetClick
  \/ WindowResize \/ MapClick \/ LinePointClick

\* ------------------------------------------------------------------------
\* js/main.js: the entry script that loads the raw tables
\* ------------------------------------------------------------------------
LegacySources == {"t12", "t13", "t19", "geo"}

\* The Year and Month columns of data/table1.2.csv, in row order (the text of a
\* cell is written as the number it spells).
T12File ==
  << [Year |-> 2021, Month |-> 8], [Year |-> 2022, Month |-> 6],
     [Year |-> 2022, Month |-> 8] >>

\* Array.from(new Set(t12.map(d => d.Year || d.year))).sort(): the last one
LegacyLastYear ==
  CHOOSE y \in { T12File[i].Year : i \in 1..Len(T12File) } :
    \A z \in { T12File[i].Year : i \in 1..Len(T12File) } : z <= y

\* months.at(0): the month of the first row
LegacyFirstMonth == T12File[1].Month

LegacySourceLoads ==
  /\ \E s \in LegacySources : src[s] = "pending" /\ src' = [src EXCEPT ![s] = "ok"]
  /\ UNCHANGED <<storeVars, pc, DATA, countyMonthIndex, townToCounty, views,
                 lastEvent, prevEvent, normVars, loadVars>>

LegacySourceFails ==
  /\ \E s \in LegacySources : src[s] = "pending" /\ src' = [src EXCEPT ![s] = "failed"]
  /\ pc' = IF pc = "loading" THEN "aborted" ELSE pc
  /\ UNCHANGED <<storeVars, DATA, countyMonthIndex, townToCounty, views,
                 lastEvent, prevEvent, normVars, loadVars>>

\* A handler of js/main.js: an assignment to a field of the state object, then
\* updateAll(), which logs the state.
LegacyWrite(field, value) ==
  /\ state' = [f \in DOMAIN state \cup {field} |-> IF f = field THEN value ELSE state[f]]
  /\ pass' = NoPass
  /\ UNCHANGED <<listeners, handles, DATA, countyMonthIndex, townToCounty, views>>

\* main() of js/main.js after the await: initControls assigns state.year and
\* state.month and registers the four listeners.
LegacyMainResumes ==
  /\ pc = "loading"
  /\ \A s \in LegacySources : src[s] = "ok"
  /\ state' = [state EXCEPT !.year = LegacyLastYear, !.month = LegacyFirstMonth]
  /\ pass' = NoPass
  /\ pc' = "ready"
  /\ lastEvent' = Ev("startup", Null)
  /\ prevEvent' = lastEvent
  /\ UNCHANGED <<listeners, handles, hist, src, DATA, countyMonthIndex, townToCounty,
                 views, normVars, loadVars>>

LegacyYearChange ==
  \/ Unheard
  \/ /\ pc = "ready"
     /\ \E i \in 1..Len(T12File) : LegacyWrite("year", T12File[i].Year)
     /\ Record("year", Null)

LegacyMonthChange ==
  \/ Unheard
  \/ /\ pc = "ready"
     /\ \E i \in 1..Len(T12File) : LegacyWrite("month", T12File[i].Month)
     /\ Record("month", Null)

LegacyMetricChange ==
  \/ Unheard
  \/ /\ pc = "ready"
     /\ \E v \in Metrics : LegacyWrite("metric", v)
     /\ Record("metric", Null)

\* state.county = null: a field the state object did not have
LegacyResetClick ==
  \/ Unheard
  \/ /\ pc = "ready"
     /\ LegacyWrite("county", Null)
     /\ Record("reset", Null)

LegacyNext ==
  \/ LegacySourceLoads \/ LegacySourceFails \/ LegacyMainResumes
  \/ LegacyYearChange \/ LegacyMonthChange \/ LegacyMetricChange \/ LegacyResetClick

\* ------------------------------------------------------------------------
\* loadData over the rows the two tables may hold
\* ------------------------------------------------------------------------

\* Rows of tourism_intensity_long.csv: a settlement spelled in two ways or
\* left empty, recorded under one of two regions, and a row of a region.
IntensityRows ==
  { [spatial_level |-> "municipality", spatial_unit |-> u, county_key |-> c, year |-> 2023,
     nights_per_100 |-> 100, nights_per_km2 |-> 50, permanent_beds |-> 10] :
    u \in {<<"Pula">>, <<"pula", SP>>, <<>>},
    c \in {<<"Istarska">>, SplitRaw} }
  \cup
  { [spatial_level |-> "county", spatial_unit |-> <<"Pula">>, county_key |-> SplitRaw,
     year |-> 2023, nights_per_100 |-> 200, nights_per_km2 |-> 50,
     permanent_beds |-> 5000] }

\* Rows of tourism_counties_monthly_total.csv: a region under one of its
\* spellings, a period, and an empty arrivals or nights cell.
TotalsRows ==
  { [county_key |-> k, year |-> 2023, month |-> m, arrivals |-> v[1], nights |-> v[2]] :
    k \in {<<"Istarska">>, <<"istria">>, SplitRaw},
    m \in {7, 11},
    v \in {<<5, NullNum>>, <<NullNum, 8>>} }

\* d3.csv delivers one more row of the intensity table.
ReadIntensityRow ==
  /\ lphase = "reading"
  /\ Len(intensityLongRaw) + Len(countyTotalsRaw) < MaxRows
  /\ \E r \in IntensityRows : intensityLongRaw' = Append(intensityLongRaw, r)
  /\ UNCHANGED <<countyTotalsRaw, lookup, lphase, storeVars, appVars, normVars>>

\* d3.csv delivers one more row of the monthly totals table.
ReadTotalsRow ==
  /\ lphase = "reading"
  /\ Len(intensityLongRaw) + Len(countyTotalsRaw) < MaxRows
  /\ \E r \in TotalsRows : countyTotalsRaw' = Append(countyTotalsRaw, r)
  /\ UNCHANGED <<intensityLongRaw, lookup, lphase, storeVars, appVars, normVars>>

\* The entries of the Settlement-to-Region Map, in insertion order: one entry
\* per settlement of the municipality rows, the first mapping kept.
RECURSIVE TownToCountyEntries(_, _)
TownToCountyEntries(rows, acc) ==
  IF rows = <<>> THEN acc
  ELSE LET r == Head(rows)
           town == Trim(r.spatial_unit)
           county == Trim(r.county_key)
       IN  IF \/ r.spatial_level # "municipality"
              \/ town = <<>> \/ county = <<>>
              \/ \E i \in 1..Len(acc) : acc[i][1] = town
           THEN TownToCountyEntries(Tail(rows), acc)
           ELSE TownToCountyEntries(Tail(rows), Append(acc, <<town, county>>))

\* loadData after the await: the rows normalized and both indexes built; the
\* scatter view fills its lookup from the settlement map.
LoadDataBuilds ==
  /\ lphase = "reading"
  /\ lphase' = "built"
  /\ DATA' = [LoadedData EXCEPT
                !.countyTotals = normalizeCountyTotals(countyTotalsRaw),
                !.intensityLong = intensityLongRaw]
  /\ townToCounty' = BuildTownToCounty(intensityLongRaw, townToCounty)
  /\ countyMonthIndex' =
       BuildCountyMonthIndex(normalizeCountyTotals(countyTotalsRaw), EmptyMap)
  /\ lookup' = NormalizedLookup(TownToCountyEntries(intensityLongRaw, <<>>), EmptyMap)
  /\ UNCHANGED <<intensityLongRaw, countyTotalsRaw, storeVars, src, pc, views,
                 lastEvent, prevEvent, normVars>>

LoadNext == ReadIntensityRow \/ ReadTotalsRow \/ LoadDataBuilds

\* ------------------------------------------------------------------------
\* Specifications
\* ------------------------------------------------------------------------
\* The modules as loaded: the state object with its defaults, no listener, no
\* data, nothing drawn.
Init ==
  /\ state = InitialState
  /\ listeners = <<>>
  /\ handles = {}
  /\ pass = NoPass
  /\ hist = <<>>
  /\ src = [s \in Sources |-> "pending"]
  /\ pc = "loading"
  /\ DATA = NoData
  /\ countyMonthIndex = EmptyMap
  /\ townToCounty = EmptyMap
  /\ views = NoView
  /\ lastEvent = NoEvent
  /\ prevEvent = NoEvent
  /\ rawRow = Null /\ rawFeat = Null
  /\ rowKey = Null /\ featKey = Null /\ reKey = Null
  /\ nphase = "idle"
  /\ nvar = 0
  /\ intensityLongRaw = <<>> /\ countyTotalsRaw = <<>>
  /\ lookup = ScatterTownToCounty
  /\ lphase = "idle"

\* The same, for the page that loads js/main.js.
LegacyInit ==
  /\ state = InitialState
  /\ listeners = <<>>
  /\ handles = {}
  /\ pass = NoPass
  /\ hist = <<>>
  /\ src = [s \in LegacySources |-> "pending"]
  /\ pc = "loading"
  /\ DATA = NoData
  /\ countyMonthIndex = EmptyMap
  /\ townToCounty = EmptyMap
  /\ views = NoView
  /\ lastEvent = NoEvent
  /\ prevEvent = NoEvent
  /\ rawRow = Null /\ rawFeat = Null
  /\ rowKey = Null /\ featKey = Null /\ reKey = Null
  /\ nphase = "idle"
  /\ nvar = 0
  /\ intensityLongRaw = <<>> /\ countyTotalsRaw = <<>>
  /\ lookup = ScatterTownToCounty
  /\ lphase = "idle"

\* A region, spelled canonically in a row and in a feature.
NormInit ==
  /\ state = InitialState
  /\ listeners = <<>>
  /\ handles = {}
  /\ pass = NoPass
  /\ hist = <<>>
  /\ src = [s \in Sources |-> "pending"]
  /\ pc = "loading"
  /\ DATA = NoData
  /\ countyMonthIndex = EmptyMap
  /\ townToCounty = EmptyMap
  /\ views = NoView
  /\ lastEvent = NoEvent
  /\ prevEvent = NoEvent
  /\ \E r \in Regions : rawRow = r /\ rawFeat = r
  /\ rowKey = Null /\ featKey = Null /\ reKey = Null
  /\ nphase = "raw"
  /\ nvar = 0
  /\ intensityLongRaw = <<>> /\ countyTotalsRaw = <<>>
  /\ lookup = ScatterTownToCounty
  /\ lphase = "idle"

\* The tables being read, nothing built yet.
LoadInit ==
  /\ state = InitialState
  /\ listeners = <<>>
  /\ handles = {}
  /\ pass = NoPass
  /\ hist = <<>>
  /\ src = [s \in Sources |-> "pending"]
  /\ pc = "loading"
  /\ DATA = NoData
  /\ countyMonthIndex = EmptyMap
  /\ townToCounty = EmptyMap
  /\ views = NoView
  /\ lastEvent = NoEvent
  /\ prevEvent = NoEvent
  /\ rawRow = Null /\ rawFeat = Null
  /\ rowKey = Null /\ featKey = Null /\ reKey = Null
  /\ nphase = "idle"
  /\ nvar = 0
  /\ intensityLongRaw = <<>> /\ countyTotalsRaw = <<>>
  /\ lookup = EmptyMap
  /\ lphase = "reading"

\* The dashboard.
Spec == Init /\ [][Next]_vars

\* The State Store with arbitrary clients.
SpecStore == Init /\ [][StoreNext]_vars

\* The State Store with the patches recorded.
SpecMerge == Init /\ [][MergeNext]_vars

\* The entry script js/main.js.
SpecLegacy == LegacyInit /\ [][LegacyNext]_vars

\* The key normalizers over the spellings of a region.
SpecNorm == NormInit /\ [][NormNext]_vars

\* loadData over the rows of the intensity and monthly totals tables.
SpecLoad == LoadInit /\ [][LoadNext]_vars

\* ------------------------------------------------------------------------
\* Claims about the State Store
\* ------------------------------------------------------------------------
Calls(f) == { i \in 1..Len(pass.log) : pass.log[i].op = "call" /\ pass.log[i].fn = f }

Unsubs(f) == { i \in 1..Len(pass.log) : pass.log[i].op = "unsub" /\ pass.log[i].fn = f }

Subs(f) == { i \in 1..Len(pass.log) : pass.log[i].op = "sub" /\ pass.log[i].fn = f }

\* The state a subscriber must receive: every field of the patch applied.
PatchApplied(seen) ==
  /\ \A f \in DOMAIN pass.patch : seen[f] = pass.patch[f]
  /\ \A f \in DOMAIN pass.pre \ DOMAIN pass.patch : seen[f] = pass.pre[f]

\* C1: in every setState call each subscriber registered when the call starts
\* is invoked exactly once, with the patch fully applied, and no callback that
\* was unregistered when the call started is invoked.
C1_EachSubscriberOnce ==
  pass.n > 0 =>
    /\ \A f \in pass.start : Cardinality(Calls(f)) = 1
    /\ \A i \in 1..Len(pass.log) :
         pass.log[i].op = "call" =>
           /\ PatchApplied(pass.log[i].seen)
           /\ pass.log[i].fn \in pass.start \/ Subs(pass.log[i].fn) # {}

\* The most recent patch of h that names the field f (0 when none does).
LastWriter(h, f) ==
  LET W == { i \in 1..Len(h) : f \in DOMAIN h[i] }
  IN  IF W = {} THEN 0 ELSE CHOOSE i \in W : \A j \in W : j <= i

\* C2: each field of the state holds the value of the most recent patch that
\* names it, or its startup default when no patch names it.
C2_LastWriteWins ==
  \A f \in DOMAIN InitialState :
    state[f] = IF LastWriter(hist, f) = 0 THEN InitialState[f]
               ELSE hist[LastWriter(hist, f)][f]

\* setState({year: 2022}) then setState({month: 5}) was called, and one more.
C2_Witness ==
  /\ Len(hist) = 3
  /\ hist[1] = [year |-> 2022] /\ hist[2] = [month |-> 5]
  /\ state.year = 2022 /\ state.month = 5

ControlKinds == {"year", "month", "metric", "reset"}

\* C4: after startup every change event of a control (year, month, metric,
\* reset) issues exactly one setState call.
C4_OneMutationPerControlEvent ==
  (pc = "ready" /\ lastEvent.kind \in ControlKinds) => pass.n = 1

\* C5: every change of the Selection State is made by a setState call, which
\* notifies every subscriber; nothing writes a field directly.
C5_OnlyThroughSetState ==
  [][state' # state =>
       /\ pass'.n = 1
       /\ state' = Merge(state, pass'.patch)
       /\ \A f \in Members(listeners) :
            \E i \in 1..Len(pass'.log) : pass'.log[i].op = "call" /\ pass'.log[i].fn = f]_vars

AnyViewUpdated ==
  \/ views.map.updated \/ views.line.updated
  \/ views.bars.updated \/ views.scatter.updated

\* C6: no view is updated before every source has loaded and both indexes are
\* built; once a source has failed no view is ever updated.
C6_UpdateOnlyAfterLoad ==
  AnyViewUpdated =>
    /\ \A s \in Sources : src[s] = "ok"
    /\ DATA = LoadedData
    /\ countyMonthIndex = BuildCountyMonthIndex(LoadedData.countyTotals, EmptyMap)
    /\ townToCounty = BuildTownToCounty(IntensityLongFile, EmptyMap)

\* All four views have been updated, by the startup and again by an event,
\* with both indexes filled.
C6_Witness ==
  /\ views.map.updated /\ views.line.updated
  /\ views.bars.updated /\ views.scatter.updated
  /\ lastEvent.kind = "resize"
  /\ DOMAIN countyMonthIndex # {} /\ DOMAIN townToCounty # {}

\* The setState a map click must issue.
Toggled(before, key) == IF before = key THEN Null ELSE key

TwoClicksOnOneRegion ==
  /\ lastEvent.kind = "mapclick" /\ prevEvent.kind = "mapclick"
  /\ lastEvent.key = prevEvent.key

\* C9: a map click issues one setState that selects the region clicked, or
\* clears the selection when that region was selected; two successive clicks
\* on one region leave no region selected.
C9_ClickToggles ==
  /\ lastEvent.kind = "mapclick" =>
       /\ pass.n = 1
       /\ pass.patch = [countyKey |-> Toggled(lastEvent.before, lastEvent.key)]
       /\ state.countyKey \in {Null, lastEvent.key}
  /\ TwoClicksOnOneRegion => state.countyKey = Null

\* C9 as amended: two successive clicks on one region leave no region selected
\* when that region was not the selected one before the first click, and
\* leave it selected when it was.
C9_ClickTogglesAmended ==
  /\ lastEvent.kind = "mapclick" =>
       /\ pass.n = 1
       /\ pass.patch = [countyKey |-> Toggled(lastEvent.before, lastEvent.key)]
       /\ state.countyKey = Toggled(lastEvent.before, lastEvent.key)
       /\ state.countyKey \in {Null, lastEvent.key}
  /\ TwoClicksOnOneRegion =>
       state.countyKey = IF prevEvent.before = lastEvent.key THEN lastEvent.key ELSE Null

\* A region was clicked twice in succession while another one was selected.
C9_Witness ==
  /\ TwoClicksOnOneRegion
  /\ Truthy(prevEvent.before) /\ prevEvent.before # lastEvent.key
  /\ state.countyKey = Null

BarsEmptyState ==
  /\ views.bars.empty
  /\ views.bars.bars = <<>> /\ views.bars.labels = <<>>
  /\ ~views.bars.axis

\* C10: the bars view updated with no region selected shows no bar, no label,
\* no axis and the empty-state indicator, also after a region was selected and
\* the selection reset.
C10_BarsEmptyState ==
  (views.bars.updated /\ ~Truthy(state.countyKey)) => BarsEmptyState

\* The bars of a region were drawn, then the reset button was clicked.
C10_Witness ==
  /\ lastEvent.kind = "reset" /\ prevEvent.kind = "mapclick"
  /\ lastEvent.before = <<"istarska">>
  /\ state.year = 2023 /\ state.month = 7
  /\ BarsEmptyState

\* The positions of the origin rows whose region key, year and month are those
\* of the selection.
SelectedOriginRows ==
  { i \in 1..Len(DATA.originLong) :
      /\ DATA.originLong[i].county_key = state.countyKey
      /\ DATA.originLong[i].year = state.year
      /\ DATA.originLong[i].month = state.month }

\* The origin label is a total marker in some letter case.
IsTotalLabel(c) == \E m \in TotalMarkers : ToLower(c) = m

MetricOf(r) == IF state.metric = "arrivals" THEN r.arrivals ELSE r.nights

\* The bar that shows the origin row r.
AsBar(r) ==
  [country |-> r.origin_country, value |-> MetricOf(r),
   arrivals |-> r.arrivals, nights |-> r.nights]

\* The bars drawn are the rows at the positions E cut to the TopN largest
\* values: each bar is a row of E (no more bars of a kind than rows), with
\* TopN bars or all of E when E has fewer rows, every row of E above the
\* smallest bar is drawn, and the bars are drawn in ascending order.
ShowsTopOf(E) ==
  LET shown == views.bars.bars
      N == Len(shown)
      BarsLike(b) == Cardinality({ j \in 1..N : shown[j] = b })
      RowsLike(b) == Cardinality({ i \in E : AsBar(DATA.originLong[i]) = b })
  IN  /\ N = (IF Cardinality(E) < TopN THEN Cardinality(E) ELSE TopN)
      /\ \A j \in 1..N : BarsLike(shown[j]) <= RowsLike(shown[j])
      /\ \A i \in E : \A j \in 1..N :
           MetricOf(DATA.originLong[i]) > shown[j].value =>
             BarsLike(AsBar(DATA.originLong[i])) = RowsLike(AsBar(DATA.originLong[i]))
      /\ \A j \in 1..N : \A k \in 1..N : j < k => shown[j].value <= shown[k].value
      /\ views.bars.labels = MapSeq(LAMBDA b : b.country, shown)

\* C11: with a region selected the bars view shows exactly the origin rows of
\* the selected region, year and month that are not total rows, cut to the 10
\* rows with the largest values of the current metric.
C11_BarsTopRows ==
  (views.bars.updated /\ Truthy(state.countyKey)) =>
    ShowsTopOf({ i \in SelectedOriginRows :
                   ~IsTotalLabel(DATA.originLong[i].origin_country) })

\* C11 as amended: the rows whose value of the current metric is missing are
\* not shown either; the cut to 10 is made among the rows that remain.
C11_BarsTopRowsAmended ==
  (views.bars.updated /\ Truthy(state.countyKey)) =>
    ShowsTopOf({ i \in SelectedOriginRows :
                   /\ ~IsTotalLabel(DATA.originLong[i].origin_country)
                   /\ MetricOf(DATA.originLong[i]) # NullNum })

\* A region, year and month with more than 10 rows to show, total rows in
\* several letter cases and rows of other regions and periods in the table;
\* 10 bars are drawn.
C11_Witness ==
  /\ views.bars.updated /\ Truthy(state.countyKey)
  /\ Len(views.bars.bars) = TopN
  /\ Cardinality({ i \in SelectedOriginRows :
                     ~IsTotalLabel(DATA.originLong[i].origin_country) }) > TopN
  /\ \E i \in SelectedOriginRows :
       DATA.originLong[i].origin_country = <<"Countries", SP, HY, SP, "Total">>
  /\ \E i \in 1..Len(DATA.originLong) : i \notin SelectedOriginRows

\* The positions of the municipality rows of the current year whose settlement
\* (or, failing that, recorded region) the lookup of the scatter view maps to
\* the selected region.
RowsOfSelectedRegion ==
  { i \in 1..Len(DATA.intensityLong) :
      LET d == DATA.intensityLong[i] IN
      /\ d.year = state.year
      /\ d.spatial_level = "municipality"
      /\ \E k \in {norm(d.spatial_unit), norm(d.county_key)} :
           /\ k \in DOMAIN ScatterTownToCounty
           /\ ScatterTownToCounty[k] = norm(state.countyKey) }

\* C12: after a scatter update with no region selected, or with no
\* municipality row of the current year in the selected region, the plot holds
\* no point.
C12_NoStalePoints ==
  (views.scatter.updated /\ (~Truthy(state.countyKey) \/ RowsOfSelectedRegion = {}))
    => views.scatter.points = <<>>

\* The points of a region were drawn, then a region that no row names was
\* clicked.
C12_Witness ==
  /\ lastEvent.kind = "mapclick"
  /\ lastEvent.before = <<"istarska">>
  /\ state.countyKey = <<"sibensko", SP, "kninska">>
  /\ state.year = 2023
  /\ views.scatter.titles
  /\ \A i \in 1..Len(DATA.intensityLong) :
       norm(DATA.intensityLong[i].county_key) # norm(state.countyKey)
  /\ views.scatter.points = <<>>

\* What each view shows is what the selection held by the store asks for.
MapShowsState ==
  /\ views.map.legend =
       [metric |-> state.metric, year |-> state.year, month |-> state.month]
  /\ views.map.highlight \in {Null, state.countyKey}
  /\ (Truthy(state.countyKey) /\ state.countyKey \in views.map.paths)
       => views.map.highlight = state.countyKey
  /\ \A c \in views.map.paths :
       views.map.fill[c] =
         IF /\ ymKey(state.year, state.month) \in DOMAIN countyMonthIndex
            /\ c \in DOMAIN countyMonthIndex[ymKey(state.year, state.month)]
         THEN MetricOf(countyMonthIndex[ymKey(state.year, state.month)][c])
         ELSE 0

LineShowsState ==
  /\ views.line.label = [metric |-> state.metric, year |-> state.year]
  /\ views.line.monthHi = state.month
  /\ views.line.countyLine = Truthy(state.countyKey)
  /\ views.line.points =
       { DATA.hrWide[i].month : i \in { j \in 1..Len(DATA.hrWide) :
                                          DATA.hrWide[j].year = state.year } }
  /\ \A p \in views.line.county :
       \E i \in 1..Len(DATA.countyTotals) :
         /\ DATA.countyTotals[i].county_key = state.countyKey
         /\ DATA.countyTotals[i].year = state.year
         /\ p = <<DATA.countyTotals[i].month, MetricOf(DATA.countyTotals[i])>>

BarsShowsState ==
  /\ views.bars.empty = ~Truthy(state.countyKey)
  /\ \A j \in 1..Len(views.bars.bars) :
       \E i \in SelectedOriginRows : views.bars.bars[j] = AsBar(DATA.originLong[i])

ScatterShowsState ==
  /\ ~Truthy(state.countyKey) => views.scatter.points = <<>>
  /\ \A j \in 1..Len(views.scatter.points) :
       \E i \in RowsOfSelectedRegion :
         views.scatter.points[j] = DATA.intensityLong[i].spatial_unit
  /\ \A i \in RowsOfSelectedRegion :
       (Truthy(state.countyKey)
        /\ IsFiniteNum(DATA.intensityLong[i].nights_per_100)
        /\ IsFiniteNum(DATA.intensityLong[i].nights_per_km2))
       => \E j \in 1..Len(views.scatter.points) :
            views.scatter.points[j] = DATA.intensityLong[i].spatial_unit

MappingRows ==
  { i \in 1..Len(intensityLongRaw) :
      /\ intensityLongRaw[i].spatial_level = "municipality"
      /\ Trim(intensityLongRaw[i].spatial_unit) # <<>>
      /\ Trim(intensityLongRaw[i].county_key) # <<>> }

Least(S) == CHOOSE i \in S : \A j \in S : i <= j

Greatest(S) == CHOOSE i \in S : \A j \in S : j <= i

\* The map built at load holds, for each settlement, the region of the first
\* row that names it.
LoadMapFirstWins ==
  /\ DOMAIN townToCounty = { Trim(intensityLongRaw[i].spatial_unit) : i \in MappingRows }
  /\ \A t \in DOMAIN townToCounty :
       townToCounty[t] =
         Trim(intensityLongRaw[
                Least({ i \in MappingRows : Trim(intensityLongRaw[i].spatial_unit) = t })
              ].county_key)

\* The lookup of the scatter view holds, for each normalized settlement key,
\* the normalized region of the first row that names it.
LookupFirstWins ==
  /\ DOMAIN lookup = { norm(intensityLongRaw[i].spatial_unit) : i \in MappingRows }
  /\ \A k \in DOMAIN lookup :
       lookup[k] =
         norm(intensityLongRaw[
                Least({ i \in MappingRows : norm(intensityLongRaw[i].spatial_unit) = k })
              ].county_key)

\* C14: each settlement key maps to the region of the first municipality row
\* that names it, a later row with another region changing nothing, in the
\* map built at load and in the normalized lookup of the scatter view.
C14_FirstMappingWins ==
  lphase = "built" => (LoadMapFirstWins /\ LookupFirstWins)

\* The positions of the totals rows of the period and region of row i.
SamePeriodAndRegion(i) ==
  { j \in 1..Len(countyTotalsRaw) :
      /\ countyTotalsRaw[j].year = countyTotalsRaw[i].year
      /\ countyTotalsRaw[j].month = countyTotalsRaw[i].month
      /\ normalizeCountyKey(countyTotalsRaw[j].county_key) =
           normalizeCountyKey(countyTotalsRaw[i].county_key) }

ZeroIfMissing(v) == IF v = NullNum THEN 0 ELSE v

\* C15: after the build the index has an entry for the period of every totals
\* row, the region key of the row is a key of that entry, and the cell holds
\* the arrivals and nights of the last row of that region and period, 0
\* standing for a missing value.
C15_IndexComplete ==
  lphase = "built" =>
    \A i \in 1..Len(countyTotalsRaw) :
      LET r == countyTotalsRaw[i]
          k == ymKey(r.year, r.month)
          c == normalizeCountyKey(r.county_key)
          w == countyTotalsRaw[Greatest(SamePeriodAndRegion(i))]
      IN  /\ k \in DOMAIN countyMonthIndex
          /\ c \in DOMAIN countyMonthIndex[k]
          /\ countyMonthIndex[k][c] =
               [arrivals |-> ZeroIfMissing(w.arrivals), nights |-> ZeroIfMissing(w.nights)]

\* Three rows were indexed: two spellings of one region in one period, a
\* missing arrivals and a missing nights value among them, and another period.
C15_Witness ==
  /\ lphase = "built"
  /\ Len(countyTotalsRaw) = 3
  /\ countyTotalsRaw[1] = [county_key |-> <<"Istarska">>, year |-> 2023, month |-> 7,
                            arrivals |-> 5, nights |-> NullNum]
  /\ countyTotalsRaw[2].county_key = <<"istria">> /\ countyTotalsRaw[2].month = 7
  /\ countyTotalsRaw[2].arrivals = NullNum
  /\ countyTotalsRaw[3].month = 11
  /\ Cardinality(DOMAIN countyMonthIndex) = 2
  /\ countyMonthIndex[ymKey(2023, 7)][<<"istarska">>] = [arrivals |-> 0, nights |-> 8]

\* C7: two raw spellings of one region get one key, whether normalizeCountyKey
\* (rows) or joinKey (map features) derives it.
C7_JoinConsistent ==
  nphase = "derived" =>
    /\ rowKey = featKey
    /\ normalizeCountyKey(rawFeat) = rowKey
    /\ joinKey(rawRow) = featKey

\* C8: normalizeCountyKey is idempotent.
C8_Idempotent ==
  nphase = "derived" => reKey = rowKey

====
